---- MODULE Spec2Model ----
(***************************************************************************)
(* A state-machine model of radd.CORE.RADDCore (src/radd/CORE.py): the     *)
(* fit-configuration core that derives the condition set, the             *)
(* parameter->condition map (pcmap), the observed data and the fitparams   *)
(* record handed to the Optimizer.                                         *)
(*                                                                         *)
(* One action per public operation.  Each action runs the whole cascade of *)
(* calls the operation makes (set_fitparams -> set_conditions ->           *)
(* set_fitparams -> __prepare_fit__ ...) on an execution record            *)
(*    e = [s |-> the object's attributes, err |-> the exception raised,    *)
(*         notes |-> the records passed to opt.update so far, ...]         *)
(* A raised exception stops every later statement: each operator returns   *)
(* its argument unchanged once e.err # "none", so the attributes keep the  *)
(* assignments made before the raise and none made after it.               *)
(***************************************************************************)
EXTENDS Integers, Sequences, FiniteSets, TLC

VARIABLES
    phase,   \* "new" before __init__, "ready" once it returned, "failed" if it raised
    self,    \* the attributes of the RADDCore object
    call,    \* the last public call: its name, arguments, outcome and opt.update log
    ncalls,  \* number of public calls made since construction
    before,  \* the attributes as they were when the last public call was entered
             \* (kept only by the actions of TrackedSpec)
    io,      \* tools.utils.params_io: the csv files written and the last call's outcome
    cb       \* a tools.utils.BasinCallback object

vars == <<phase, self, call, ncalls, before, io, cb>>

(***************************************************************************)
(* Python values: str(), string order, list indexing                       *)
(***************************************************************************)

\* code points of the characters that occur in factor names and levels
CharCode ==
    [c \in {"0","1","2","3","4","5","6","7","8","9"} |->
        CASE c = "0" -> 48 [] c = "1" -> 49 [] c = "2" -> 50 [] c = "3" -> 51
          [] c = "4" -> 52 [] c = "5" -> 53 [] c = "6" -> 54 [] c = "7" -> 55
          [] c = "8" -> 56 [] c = "9" -> 57]
    @@ [c \in {"_"} |-> 95]
    @@ [c \in {"a","b","c","d","e","f","g","h","i","j","k","l","m",
               "n","o","p","q","r","s","t","u","v","w","x","y","z"} |->
        CASE c = "a" -> 97  [] c = "b" -> 98  [] c = "c" -> 99  [] c = "d" -> 100
          [] c = "e" -> 101 [] c = "f" -> 102 [] c = "g" -> 103 [] c = "h" -> 104
          [] c = "i" -> 105 [] c = "j" -> 106 [] c = "k" -> 107 [] c = "l" -> 108
          [] c = "m" -> 109 [] c = "n" -> 110 [] c = "o" -> 111 [] c = "p" -> 112
          [] c = "q" -> 113 [] c = "r" -> 114 [] c = "s" -> 115 [] c = "t" -> 116
          [] c = "u" -> 117 [] c = "v" -> 118 [] c = "w" -> 119 [] c = "x" -> 120
          [] c = "y" -> 121 [] c = "z" -> 122]

CharAt(str, i) == SubSeq(str, i, i)

\* Python's a < b on str: lexicographic by code point, a proper prefix is smaller
RECURSIVE StrLessFrom(_, _, _)
StrLessFrom(a, b, i) ==
    IF i > Len(b) THEN FALSE
    ELSE IF i > Len(a) THEN TRUE
    ELSE IF CharCode[CharAt(a, i)] < CharCode[CharAt(b, i)] THEN TRUE
    ELSE IF CharCode[CharAt(a, i)] > CharCode[CharAt(b, i)] THEN FALSE
    ELSE StrLessFrom(a, b, i + 1)

StrLess(a, b) == StrLessFrom(a, b, 1)

\* str(n) for a non-negative int
Digit(d) == CASE d = 0 -> "0" [] d = 1 -> "1" [] d = 2 -> "2" [] d = 3 -> "3"
              [] d = 4 -> "4" [] d = 5 -> "5" [] d = 6 -> "6" [] d = 7 -> "7"
              [] d = 8 -> "8" [] d = 9 -> "9"

RECURSIVE StrOfInt(_)
StrOfInt(n) == IF n < 10 THEN Digit(n) ELSE StrOfInt(n \div 10) \o Digit(n % 10)

\* the set of elements of a list
Range(seq) == {seq[i] : i \in DOMAIN seq}

\* np.sort / np.unique on strings: the distinct elements in ascending str order
RECURSIVE SortStrings(_)
SortStrings(S) ==
    IF S = {} THEN <<>>
    ELSE LET m == CHOOSE x \in S : \A y \in S \ {x} : StrLess(x, y)
         IN  <<m>> \o SortStrings(S \ {m})

\* np.sort on numbers: the distinct elements in ascending numeric order
RECURSIVE SortInts(_)
SortInts(S) ==
    IF S = {} THEN <<>>
    ELSE LET m == CHOOSE x \in S : \A y \in S : x <= y
         IN  <<m>> \o SortInts(S \ {m})

\* '_'.join(parts)
RECURSIVE Join(_)
Join(parts) ==
    IF Len(parts) = 0 THEN ""
    ELSE IF Len(parts) = 1 THEN parts[1]
    ELSE parts[1] \o "_" \o Join(Tail(parts))

\* list[i] with Python's negative indexing; InRange is false where it raises IndexError
InRange(n, i) == -n <= i /\ i < n
PyIndex(n, i) == IF i < 0 THEN n + i + 1 ELSE i + 1

(***************************************************************************)
(* The data set and the arguments the operations are called with           *)
(***************************************************************************)

\* number of subjects in the data (self.nidx)
NSubj == 2

\* data.idx.unique(): the subject identifiers, integers in the data
SubjectIds == [i \in 1..NSubj |-> 27 + i]

\* the condition-factor columns of the data; dose is a numeric column, site and
\* arm are string columns whose level values contain the character '_'
DataColumns == {"cond", "grp", "dose", "site", "arm"}

ColumnIsNumeric(c) == c = "dose"

\* data[c].unique() of a string column
ColumnStrings(c) ==
    CASE c = "cond" -> {"hard", "easy"}
      [] c = "grp"  -> {"c", "a", "b"}
      [] c = "site" -> {"a", "a_b"}
      [] c = "arm"  -> {"b_c", "c"}
      [] c = "flat" -> {"flat"}

\* data[c].unique() of a numeric column
ColumnInts(c) == CASE c = "dose" -> {10, 2}

\* the quantile arrays a caller passes (probabilities in percent);
\* the first is the default, np.arange(.1, 1., .1)
DefaultQuantiles == <<10, 20, 30, 40, 50, 60, 70, 80, 90>>
QuantileArrays == {DefaultQuantiles, <<25, 50, 75>>}

\* depends_on specifications: a dict as the list of its items, in insertion
\* order; an item's value is one factor name (list = FALSE) or a list of them
Item(p, c)      == [p |-> p, list |-> FALSE, conds |-> <<c>>]
ListItem(p, cs) == [p |-> p, list |-> TRUE, conds |-> cs]

FlatSpec    == <<Item("all", "flat")>>
CondSpec    == <<Item("v", "cond")>>
GrpSpec     == <<Item("a", "grp")>>
ListSpec    == <<ListItem("v", <<"grp", "cond">>)>>
MixedSpec   == <<Item("v", "cond"), Item("a", "flat")>>
DoseSpec    == <<Item("v", "dose")>>
SiteArmSpec == <<ListItem("v", <<"site", "arm">>)>>
EmptySpec   == <<>>
UnknownSpec == <<Item("v", "nope")>>

DependsOnSpecs ==
    {FlatSpec, CondSpec, GrpSpec, ListSpec, MixedSpec, DoseSpec, EmptySpec, UnknownSpec}

\* the ix values tried: below -n, the last unit counted from the end, the first
\* two units, and n itself
IxValues == {0 - NSubj - 1, -1, 0, 1, NSubj}

\* the fit granularities
FitOnValues == {"average", "subjects"}

\* nlevels values a caller passes directly
NlevelsValues == {1, 5}

\* ntrials values a caller passes
NtrialsValues == {1001}

\* number of distinct stop-signal delays in the data
NSsd == 3

(***************************************************************************)
(* ConditionSet and pcmap: the pure parts of set_conditions and            *)
(* __format_pcmap__                                                        *)
(***************************************************************************)

\* np.unique(np.hstack(listvalues(depends_on))).tolist(): the distinct factor
\* names of all items, list-valued items flattened, in ascending str order
ConditionNames(D) == SortStrings(UNION {Range(D[i].conds) : i \in DOMAIN D})

\* [str(lvl) for lvl in np.sort(data[c].unique())]: sorted as the column's own
\* type (numbers numerically), then coerced to str
Levels(c) ==
    IF ColumnIsNumeric(c)
    THEN LET sorted == SortInts(ColumnInts(c))
         IN  [i \in 1..Len(sorted) |-> StrOfInt(sorted[i])]
    ELSE SortStrings(ColumnStrings(c))

\* np.cumprod(m)[0]: the first running product instead of the last
CumprodFirst(m) == IF Len(m) = 0 THEN 1 ELSE Head(m)

\* np.cumprod(m)[-1]
RECURSIVE CumprodLast(_)
CumprodLast(m) == IF Len(m) = 0 THEN 1 ELSE Head(m) * CumprodLast(Tail(m))

\* list(itertools.product(*lists)): the last list varies fastest
RECURSIVE Product(_)
Product(lists) ==
    IF Len(lists) = 0 THEN << <<>> >>
    ELSE LET h    == Head(lists)
             rest == Product(Tail(lists))
         IN  [k \in 1..(Len(h) * Len(rest)) |->
                <<h[((k - 1) \div Len(rest)) + 1]>> \o rest[((k - 1) % Len(rest)) + 1]]

\* the names of one item with the listed factors taken in alphabetical order
ParamLevelsSorted(item, clmap) ==
    LET fs == SortStrings(Range(item.conds))
        level_data == Product([i \in 1..Len(fs) |-> clmap[fs[i]]])
        clevels == [k \in 1..Len(level_data) |-> Join(level_data[k])]
    IN  [k \in 1..Len(clevels) |-> item.p \o "_" \o clevels[k]]

\* the names of one depends_on item: '{p}_{level}' per level, or per element of
\* the cross-product of the listed factors' levels joined with '_'
ParamLevels(item, clmap) ==
    LET clevels ==
            IF item.list
            THEN LET level_data == Product([i \in 1..Len(item.conds) |-> clmap[item.conds[i]]])
                 IN  [k \in 1..Len(level_data) |-> Join(level_data[k])]
            ELSE clmap[item.conds[1]]
    IN  [k \in 1..Len(clevels) |-> item.p \o "_" \o clevels[k]]

\* the dict built by the loop of __format_pcmap__
PcmapOf(D, clmap) ==
    [p \in {D[i].p : i \in DOMAIN D} |->
        ParamLevels(D[CHOOSE i \in DOMAIN D : D[i].p = p], clmap)]

(***************************************************************************)
(* Records: observed vectors, fitparams, basinparams, keyword arguments    *)
(***************************************************************************)

\* the model kind, the constructor's default
Kind == "xdpm"

\* An observed or weight vector is known by what it was built from: the list it
\* belongs to, the fit unit, the condition grouping and level count, and the
\* quantiles.  Flat vectors are collapsed across conditions.
CondVec(of, unit, s) ==
    [of |-> of, unit |-> unit, conds |-> s.conds, nlevels |-> s.nlevels,
     quantiles |-> s.quantiles]
FlatVec(of, unit, s) ==
    [of |-> of, unit |-> unit, conds |-> <<>>, nlevels |-> 1, quantiles |-> s.quantiles]
NoVec == [of |-> "unset", unit |-> 0, conds |-> <<>>, nlevels |-> 0, quantiles |-> <<>>]

\* number of entries of a vector: one accuracy plus one per quantile, per level
Ncols(quantiles) == 1 + Len(quantiles)
VecLen(v) == Ncols(v.quantiles) * v.nlevels

\* number of fit units the handler builds vectors for
NUnits(fit_on) == IF fit_on = "subjects" THEN NSubj ELSE 1

NoSsdInfo == [present |-> FALSE, rows |-> 0, nssd |-> 0, nss |-> 0, nss_per_ssd |-> 0,
              ssd_ix |-> <<>>]

NoMap == [c \in {} |-> <<>>]

NoFitparams ==
    [ix |-> 0, ntrials |-> 0, tol |-> "", maxfev |-> 0, kind |-> "", clmap |-> NoMap,
     pcmap |-> NoMap, depends_on |-> <<>>, quantiles |-> <<>>, fit_on |-> "",
     model_id |-> "", inits |-> "", nlevels |-> 0, nidx |-> 0, idx |-> "",
     y |-> NoVec, wts |-> NoVec, ssd_info |-> NoSsdInfo]

NoBasinparams == [ninits |-> 0, nsamples |-> 0, nsuccess |-> 0, tol |-> "", progress |-> FALSE]

\* **kwargs of set_fitparams: the keys passed, and their values
NoKw ==
    [keys |-> {}, ix |-> 0, ntrials |-> 0, tol |-> "", maxfev |-> 0, depends_on |-> <<>>,
     quantiles |-> <<>>, nlevels |-> 0, clmap |-> NoMap, model_id |-> "", fit_on |-> ""]

KwIx(k)         == [NoKw EXCEPT !.keys = @ \cup {"ix"}, !.ix = k]
KwNtrials(n)    == [NoKw EXCEPT !.keys = @ \cup {"ntrials"}, !.ntrials = n]
KwDependsOn(D)  == [NoKw EXCEPT !.keys = @ \cup {"depends_on"}, !.depends_on = D]
KwQuantiles(q)  == [NoKw EXCEPT !.keys = @ \cup {"quantiles"}, !.quantiles = q]
KwNlevels(n)    == [NoKw EXCEPT !.keys = @ \cup {"nlevels"}, !.nlevels = n]
KwFitOn(f)      == [NoKw EXCEPT !.keys = @ \cup {"fit_on"}, !.fit_on = f]

\* **kwargs of set_basinparams
NoBasinKw == [keys |-> {}, ninits |-> 0, nsamples |-> 0, nsuccess |-> 0, tol |-> "",
              progress |-> FALSE]

(***************************************************************************)
(* The methods of RADDCore, on an execution record e                       *)
(***************************************************************************)

Raise(e, exc) == [e EXCEPT !.err = exc]
Ok(e) == e.err = "none"

\* what opt.update (or the Optimizer's constructor) is handed: fitparams and
\* basinparams are passed by reference, so the Optimizer sees them as they are then
Note(arg, s) == [arg |-> arg, fitparams |-> s.fitparams, basinparams |-> s.basinparams]

\* fitparams[kw_arg] = kw_val for every keyword passed
MergeKw(fp, kw) ==
    [fp EXCEPT !.ix         = IF "ix" \in kw.keys THEN kw.ix ELSE @,
               !.ntrials    = IF "ntrials" \in kw.keys THEN kw.ntrials ELSE @,
               !.tol        = IF "tol" \in kw.keys THEN kw.tol ELSE @,
               !.maxfev     = IF "maxfev" \in kw.keys THEN kw.maxfev ELSE @,
               !.depends_on = IF "depends_on" \in kw.keys THEN kw.depends_on ELSE @,
               !.quantiles  = IF "quantiles" \in kw.keys THEN kw.quantiles ELSE @,
               !.nlevels    = IF "nlevels" \in kw.keys THEN kw.nlevels ELSE @,
               !.clmap      = IF "clmap" \in kw.keys THEN kw.clmap ELSE @,
               !.model_id   = IF "model_id" \in kw.keys THEN kw.model_id ELSE @,
               !.fit_on     = IF "fit_on" \in kw.keys THEN kw.fit_on ELSE @]

\* the default record of the first set_fitparams call; y, wts and ssd_info are
\* not keys of it yet
DefaultFitparams(s) ==
    [ix |-> 0, ntrials |-> 20000, tol |-> "1e-30", maxfev |-> 450, kind |-> Kind,
     clmap |-> s.clmap, pcmap |-> s.pcmap, depends_on |-> s.depends_on,
     quantiles |-> s.quantiles, fit_on |-> s.fit_on, model_id |-> s.model_id,
     inits |-> s.inits, nlevels |-> 1, nidx |-> s.nidx, idx |-> StrOfInt(s.idx[1]),
     y |-> NoVec, wts |-> NoVec, ssd_info |-> NoSsdInfo]

DefaultBasinparams ==
    [ninits |-> 3, nsamples |-> 1200, nsuccess |-> 100, tol |-> "0.01", progress |-> TRUE]

MergeBasinKw(bp, kw) ==
    [bp EXCEPT !.ninits   = IF "ninits" \in kw.keys THEN kw.ninits ELSE @,
               !.nsamples = IF "nsamples" \in kw.keys THEN kw.nsamples ELSE @,
               !.nsuccess = IF "nsuccess" \in kw.keys THEN kw.nsuccess ELSE @,
               !.tol      = IF "tol" \in kw.keys THEN kw.tol ELSE @,
               !.progress = IF "progress" \in kw.keys THEN kw.progress ELSE @]

\* __format_pcmap__: rebinds self.pcmap (and handler.pcmap) to a new dict;
\* fitparams['pcmap'] is not assigned here
format_pcmap(e) ==
    IF ~Ok(e) THEN e
    ELSE LET pcmap == PcmapOf(e.s.depends_on, e.s.clmap)
         IN  [e EXCEPT !.s.pcmap = pcmap,
                       !.s.handler_pcmap = IF e.s.has_handler THEN pcmap ELSE @]

\* generate_model_id(appendstr); appendstr = "" stands for None
generate_model_id(e, appendstr) ==
    IF ~Ok(e) THEN e
    ELSE LET D      == e.s.depends_on
             keys   == [i \in 1..Len(D) |-> D[i].p]
             names  == IF "all" \in Range(keys) THEN <<"flat">> ELSE keys
             fit_on == IF e.s.fit_on = "subjects" THEN "idx" ELSE "avg"
             parts  == <<Kind>> \o names \o <<fit_on>>
                       \o (IF appendstr # "" THEN <<appendstr>> ELSE <<>>)
             id     == Join(parts)
         IN  [e EXCEPT !.s.model_id = id,
                       !.s.fitparams.model_id = IF e.s.has_fitparams THEN id ELSE @]

\* __make_dataframes__: a new DataHandler builds the observed vectors and the
\* weights for the model's current conds, nlevels and quantiles
make_dataframes(e) ==
    IF ~Ok(e) THEN e
    ELSE LET s == e.s
             n == NUnits(s.fit_on)
         IN  [e EXCEPT !.s.has_handler   = TRUE,
                       !.s.handler_pcmap = s.pcmap,
                       !.s.observed      = [u \in 1..n |-> CondVec("observed", u, s)],
                       !.s.observed_flat = [u \in 1..n |-> FlatVec("observed_flat", u, s)],
                       !.s.cond_wts      = [u \in 1..n |-> CondVec("cond_wts", u, s)],
                       !.s.flat_wts      = [u \in 1..n |-> FlatVec("flat_wts", u, s)],
                       !.s.has_ssdDF     = @ \/ s.stop_data,
                       !.nmake           = @ + 1]

\* update_data, lines 217-227: y and wts are the ix'th entries of the
\* conditional lists or of the flat ones, idx follows the model's fit_on
select_data(e, conditional) ==
    LET s  == e.s
        i  == s.fitparams.ix
        ys == IF conditional THEN s.observed ELSE s.observed_flat
        ws == IF conditional THEN s.cond_wts ELSE s.flat_wts
    IN  IF ~InRange(Len(ys), i) THEN Raise(e, "IndexError")
        ELSE LET e1 == [e EXCEPT !.s.fitparams.y   = ys[PyIndex(Len(ys), i)],
                                 !.s.fitparams.wts = ws[PyIndex(Len(ws), i)]]
             IN  IF s.fit_on = "subjects"
                 THEN IF ~InRange(Len(s.idx), i) THEN Raise(e1, "IndexError")
                      ELSE [e1 EXCEPT !.s.fitparams.idx =
                                          StrOfInt(s.idx[PyIndex(Len(s.idx), i)])]
                 ELSE [e1 EXCEPT !.s.fitparams.idx = "avg"]

\* update_data that selects the flat vectors whatever nlevels is
update_data_flat(e, nlevels) ==
    IF ~Ok(e) THEN e ELSE select_data(e, FALSE)

\* update_data that takes the conditional vectors from nlevels == 1 on
update_data_inclusive(e, nlevels) ==
    IF ~Ok(e) THEN e ELSE select_data(e, nlevels >= 1)

\* update_data(nlevels)
update_data(e, nlevels) ==
    IF ~Ok(e) THEN e ELSE select_data(e, nlevels > 1)

\* update_quantiles, lines 345-346: y and wts are taken from the flat lists
select_flat(e) ==
    IF ~Ok(e) THEN e
    ELSE LET s == e.s
             i == s.fitparams.ix
         IN  IF ~InRange(Len(s.observed_flat), i) THEN Raise(e, "IndexError")
             ELSE [e EXCEPT
                     !.s.fitparams.y   = s.observed_flat[PyIndex(Len(s.observed_flat), i)],
                     !.s.fitparams.wts = s.flat_wts[PyIndex(Len(s.flat_wts), i)]]

\* update_quantiles
update_quantiles(e) ==
    IF ~Ok(e) THEN e
    ELSE select_flat(make_dataframes([e EXCEPT !.s.quantiles = e.s.fitparams.quantiles]))

\* int(.5 * ntrials): half of the trial budget, truncated
StopTrialsAll(ntrials) == ntrials
StopTrials(ntrials) == ntrials \div 2

\* __set_ssd_info__.  ssd is the matrix of mean delays, one row per group of
\* ssdDF.groupby(self.conds) (one per level combination of the current conds)
\* and one column per distinct delay; only its shape is kept.
set_ssd_info(e) ==
    IF ~Ok(e) THEN e
    ELSE LET s  == e.s
             fp == s.fitparams
         IN  IF s.fit_on # "average" /\ ~InRange(Len(s.idx), fp.ix)
             THEN Raise(e, "IndexError")
             ELSE LET rows == IF fp.nlevels = 1 THEN 1 ELSE s.nlevels
                      nssd == s.ndelays
                      nss  == StopTrials(fp.ntrials)
                      e1   == IF s.fit_on # "average"
                              THEN [e EXCEPT !.s.ssd = [present |-> TRUE, rows |-> s.nlevels]]
                              ELSE e
                  IN  IF nssd = 0 THEN Raise(e1, "ZeroDivisionError")
                      ELSE [e1 EXCEPT !.s.fitparams.ssd_info =
                               [present |-> TRUE, rows |-> rows, nssd |-> nssd, nss |-> nss,
                                nss_per_ssd |-> nss \div nssd,
                                ssd_ix |-> [r \in 1..rows |-> [k \in 1..nssd |-> k - 1]]]]

\* set_basinparams(**kwargs)
set_basinparams(e, kw) ==
    IF ~Ok(e) THEN e
    ELSE LET e1 == IF ~e.s.has_basinparams
                   THEN [e EXCEPT !.s.has_basinparams = TRUE,
                                  !.s.basinparams = DefaultBasinparams]
                   ELSE [e EXCEPT !.s.basinparams = MergeBasinKw(@, kw)]
         IN  IF e1.s.has_opt
             THEN [e1 EXCEPT !.notes = Append(@, Note("basinparams", e1.s))]
             ELSE e1

RECURSIVE set_fitparams(_, _, _)
RECURSIVE set_conditions(_, _)
RECURSIVE prepare_fit(_)

\* __prepare_fit__, lines 62-63
default_inits(e) ==
    IF Ok(e) /\ e.s.inits = "None" THEN [e EXCEPT !.s.inits = "default"] ELSE e

\* __prepare_fit__, lines 76-77: a new Optimizer is built on the two records
new_optimizer(e) ==
    IF ~Ok(e) THEN e
    ELSE [e EXCEPT !.s.has_opt = TRUE, !.notes = Append(@, Note("init", e.s))]

\* __prepare_fit__
prepare_fit(e) ==
    IF ~Ok(e) THEN e
    ELSE new_optimizer(
            set_basinparams(
               set_fitparams(
                  make_dataframes(generate_model_id(format_pcmap(default_inits(e)), "")),
                  "None", NoKw),
               NoBasinKw))

\* set_conditions that hands depends_on back to set_fitparams while the record
\* still holds another specification
refresh_fitparams_depends_on(e) ==
    IF ~Ok(e) \/ ~e.s.has_fitparams THEN e
    ELSE set_fitparams(e, "None",
            [NoKw EXCEPT !.keys = {"nlevels", "clmap", "model_id"}
                                  \cup (IF e.s.fitparams.depends_on # e.s.depends_on
                                        THEN {"depends_on"} ELSE {}),
                         !.depends_on = e.s.depends_on,
                         !.nlevels = e.s.nlevels,
                         !.clmap = e.s.clmap,
                         !.model_id = e.s.model_id])

\* set_conditions, lines 283-285: the record is told the new nlevels, clmap and
\* model_id (and not the new pcmap)
refresh_fitparams(e) ==
    IF ~Ok(e) \/ ~e.s.has_fitparams THEN e
    ELSE set_fitparams(e, "None",
            [NoKw EXCEPT !.keys = {"nlevels", "clmap", "model_id"},
                         !.nlevels = e.s.nlevels,
                         !.clmap = e.s.clmap,
                         !.model_id = e.s.model_id])

\* set_conditions, line 284
refresh_model_id(e) ==
    IF Ok(e) /\ e.s.has_fitparams THEN generate_model_id(e, "") ELSE e

\* set_conditions, lines 280-281 and set_fitparams, lines 175-176
ssd_if_present(e) ==
    IF Ok(e) /\ e.s.has_ssdDF THEN set_ssd_info(e) ELSE e

\* set_conditions, lines 272-277: the levels of every factor, read from the
\* data copy; data[c] raises KeyError for a name that is no column
set_levels(e) ==
    IF ~Ok(e) THEN e
    ELSE LET conds   == e.s.conds
             columns == DataColumns \cup (IF e.s.data_flat THEN {"flat"} ELSE {})
         IN  IF \E c \in Range(conds) : c \notin columns THEN Raise(e, "KeyError")
             ELSE LET clmap       == [c \in Range(conds) |-> Levels(c)]
                      cond_matrix == [i \in 1..Len(conds) |-> Len(clmap[conds[i]])]
                  IN  [e EXCEPT !.s.clmap = clmap,
                                !.s.cond_matrix = cond_matrix,
                                !.s.nlevels = CumprodLast(cond_matrix),
                                !.s.groups = <<"idx">> \o conds]

\* set_conditions, lines 263-271: a 'flat' factor adds the column 'flat' to
\* self.data for good
assign_factors(e, D) ==
    LET conds == ConditionNames(D)
        flat  == "flat" \in Range(conds)
    IN  [e EXCEPT !.s.depends_on = D,
                  !.s.conds = conds,
                  !.s.nconds = Len(conds),
                  !.s.is_flat = flat,
                  !.s.data_flat = @ \/ flat]

\* set_factors that takes an empty depends_on as a specification of no factor
set_factors_unchecked(e, D) ==
    IF ~Ok(e) THEN e ELSE assign_factors(e, D)

\* set_conditions, lines 262-271: np.hstack of no values raises ValueError,
\* after depends_on has been assigned
set_factors(e, D) ==
    IF ~Ok(e) THEN e
    ELSE IF Len(D) = 0 THEN Raise([e EXCEPT !.s.depends_on = D], "ValueError")
    ELSE assign_factors(e, D)

\* set_conditions(depends_on)
set_conditions(e, D) ==
    IF ~Ok(e) THEN e
    ELSE refresh_fitparams(
            refresh_model_id(ssd_if_present(format_pcmap(set_levels(set_factors(e, D))))))

\* set_fitparams that builds the default record on every call
fill_fitparams_fresh(e, kw) ==
    [e EXCEPT !.s.has_fitparams = TRUE,
              !.s.fitparams = MergeKw(DefaultFitparams(e.s), kw),
              !.nset = @ + 1]

\* set_fitparams that merges the keywords of the first call into the default record
fill_fitparams_merged(e, kw) ==
    [e EXCEPT !.s.has_fitparams = TRUE,
              !.s.fitparams = MergeKw(IF e.s.has_fitparams THEN @ ELSE DefaultFitparams(e.s),
                                      kw),
              !.nset = @ + 1]

\* set_fitparams, lines 128-157: the first call builds the default record and
\* ignores kwargs, a later call assigns every keyword passed
fill_fitparams(e, kw) ==
    IF ~e.s.has_fitparams
    THEN [e EXCEPT !.s.has_fitparams = TRUE,
                   !.s.fitparams = DefaultFitparams(e.s),
                   !.nset = @ + 1]
    ELSE [e EXCEPT !.s.fitparams = MergeKw(@, kw),
                   !.nset = @ + 1]

\* set_fitparams that stores new quantiles without rebuilding the observed data
quantiles_stored(e, kw) ==
    IF Ok(e) /\ "quantiles" \in kw.keys
    THEN [e EXCEPT !.s.quantiles = e.s.fitparams.quantiles]
    ELSE e

\* set_fitparams, lines 159-160
quantiles_changed(e, kw) ==
    IF "quantiles" \in kw.keys THEN update_quantiles(e) ELSE e

\* set_fitparams, lines 166-167
reformat(e, reformat_dataframes) ==
    IF reformat_dataframes THEN prepare_fit(e) ELSE e

\* set_fitparams, lines 161-167: is_flat is read before set_conditions changes it
depends_on_changed(e, kw) ==
    IF Ok(e) /\ "depends_on" \in kw.keys
    THEN reformat(set_conditions(e, kw.depends_on), e.s.is_flat)
    ELSE e

\* set_fitparams that takes no notice of force
ignore_force(e, force) == e

\* set_fitparams, lines 168-171
apply_force(e, force) ==
    IF ~Ok(e) THEN e
    ELSE IF force = "cond" THEN [e EXCEPT !.s.fitparams.nlevels = e.s.nlevels]
    ELSE IF force = "flat" THEN [e EXCEPT !.s.fitparams.nlevels = 1]
    ELSE e

\* set_fitparams, line 173
reselect(e) ==
    IF ~Ok(e) THEN e ELSE update_data(e, e.s.fitparams.nlevels)

\* set_fitparams, lines 177-179
notify_fitparams(e) ==
    IF Ok(e) /\ e.s.has_opt
    THEN [e EXCEPT !.notes = Append(@, Note("fitparams", e.s))]
    ELSE e

\* set_fitparams(force, **kwargs); force = "None" stands for None
set_fitparams(e, force, kw) ==
    IF ~Ok(e) THEN e
    ELSE notify_fitparams(
            ssd_if_present(
               reselect(
                  apply_force(
                     depends_on_changed(quantiles_changed(fill_fitparams(e, kw), kw), kw),
                     force))))

\* set_testing_params, line 381
notify_progress(e) ==
    IF ~Ok(e) THEN e
    ELSE [e EXCEPT !.notes = Append(@, Note("basinparams", e.s))]

\* set_testing_params(), with its default arguments
set_testing_params(e) ==
    notify_progress(
       set_basinparams(
          set_fitparams(e, "None",
             [NoKw EXCEPT !.keys = {"tol", "maxfev"}, !.tol = "1e-20", !.maxfev = 1000]),
          [NoBasinKw EXCEPT !.keys = {"tol", "ninits", "nsamples", "nsuccess"},
                            !.tol = "1e-20", !.ninits = 2, !.nsamples = 1000,
                            !.nsuccess = 50]))

\* the object before __init__ has assigned anything
NewSelf ==
    [fit_on |-> "", quantiles |-> <<>>, idx |-> <<>>, nidx |-> 0, inits |-> "None",
     stop_data |-> FALSE, ndelays |-> NSsd, data_flat |-> FALSE,
     depends_on |-> <<>>, conds |-> <<>>, nconds |-> 0, is_flat |-> FALSE,
     clmap |-> NoMap, cond_matrix |-> <<>>, nlevels |-> 0, groups |-> <<>>,
     pcmap |-> NoMap, model_id |-> "",
     has_handler |-> FALSE, handler_pcmap |-> NoMap,
     observed |-> <<>>, observed_flat |-> <<>>, cond_wts |-> <<>>, flat_wts |-> <<>>,
     has_ssdDF |-> FALSE, ssd |-> [present |-> FALSE, rows |-> 0],
     has_fitparams |-> FALSE, fitparams |-> NoFitparams,
     has_basinparams |-> FALSE, basinparams |-> NoBasinparams,
     has_opt |-> FALSE]

\* the execution record a public call starts with
Start(s) == [s |-> s, err |-> "none", notes |-> <<>>, nmake |-> 0, nset |-> 0]

\* __init__(data, fit_on, depends_on, quantiles); stop_data says whether the
\* data holds stop-signal trials (then the handler builds ssdDF)
init(e, D, fit_on, stop_data, quantiles) ==
    LET e1 == [e EXCEPT !.s.fit_on = fit_on,
                        !.s.quantiles = quantiles,
                        !.s.stop_data = stop_data,
                        !.s.idx = SubjectIds,
                        !.s.nidx = Len(SubjectIds),
                        !.s.inits = "None"]
    IN  prepare_fit(set_conditions(e1, D))

(***************************************************************************)
(* The state machine: one action per public operation                      *)
(***************************************************************************)

\* the set_fitparams calls made: every keyword alone without force, and
\* force = 'cond' / 'flat' alone, with a new depends_on and with an nlevels override
PlainKwargs ==
    {NoKw}
    \cup {KwIx(k) : k \in IxValues}
    \cup {KwNtrials(n) : n \in NtrialsValues}
    \cup {KwDependsOn(D) : D \in DependsOnSpecs}
    \cup {KwQuantiles(q) : q \in QuantileArrays}
    \cup {KwNlevels(n) : n \in NlevelsValues}
    \cup {KwFitOn(f) : f \in FitOnValues}

ForcedKwargs ==
    {NoKw, KwDependsOn(FlatSpec), KwDependsOn(CondSpec), KwDependsOn(GrpSpec)}
    \cup {KwNlevels(n) : n \in NlevelsValues}

FitCalls ==
    {<<"None", kw>> : kw \in PlainKwargs}
    \cup {<<force, kw>> : force \in {"cond", "flat"}, kw \in ForcedKwargs}

BasinKwargs ==
    {NoBasinKw, [NoBasinKw EXCEPT !.keys = {"ninits"}, !.ninits = 5]}

\* number of public calls made on one object after its construction
MaxCalls == 2

NoCall == [op |-> "none", force |-> "None", kw |-> NoKw, D |-> <<>>, arg |-> "",
           err |-> "none", notes |-> <<>>, nmake |-> 0, nset |-> 0]

\* the record of a finished call
Called(op, force, kw, D, arg, r) ==
    [op |-> op, force |-> force, kw |-> kw, D |-> D, arg |-> arg,
     err |-> r.err, notes |-> r.notes, nmake |-> r.nmake, nset |-> r.nset]

\* no csv file written and no params_io call made; no BasinCallback built
NoIo == [files |-> <<>>, op |-> "none"]
NoCallback == [built |-> FALSE]

Init ==
    /\ phase = "new"
    /\ self = NewSelf
    /\ call = NoCall
    /\ ncalls = 0
    /\ before = NewSelf
    /\ io = NoIo
    /\ cb = NoCallback

Construct(D, fit_on, stop_data) ==
    /\ phase = "new"
    /\ LET r == init(Start(self), D, fit_on, stop_data, DefaultQuantiles)
       IN  /\ phase' = IF Ok(r) THEN "ready" ELSE "failed"
           /\ self' = r.s
           /\ call' = Called("__init__", "None", NoKw, D, fit_on, r)
    /\ UNCHANGED <<ncalls, before, io, cb>>

SetFitparams(force, kw) ==
    /\ phase = "ready"
    /\ ncalls < MaxCalls
    /\ LET r == set_fitparams(Start(self), force, kw)
       IN  /\ self' = r.s
           /\ call' = Called("set_fitparams", force, kw, <<>>, "", r)
    /\ ncalls' = ncalls + 1
    /\ UNCHANGED <<phase, before, io, cb>>

SetBasinparams(kw) ==
    /\ phase = "ready"
    /\ ncalls < MaxCalls
    /\ LET r == set_basinparams(Start(self), kw)
       IN  /\ self' = r.s
           /\ call' = Called("set_basinparams", "None", kw, <<>>, "", r)
    /\ ncalls' = ncalls + 1
    /\ UNCHANGED <<phase, before, io, cb>>

SetConditions(D) ==
    /\ phase = "ready"
    /\ ncalls < MaxCalls
    /\ LET r == set_conditions(Start(self), D)
       IN  /\ self' = r.s
           /\ call' = Called("set_conditions", "None", NoKw, D, "", r)
    /\ ncalls' = ncalls + 1
    /\ UNCHANGED <<phase, before, io, cb>>

GenerateModelId(appendstr) ==
    /\ phase = "ready"
    /\ ncalls < MaxCalls
    /\ LET r == generate_model_id(Start(self), appendstr)
       IN  /\ self' = r.s
           /\ call' = Called("generate_model_id", "None", NoKw, <<>>, appendstr, r)
    /\ ncalls' = ncalls + 1
    /\ UNCHANGED <<phase, before, io, cb>>

UpdateData(nlevels) ==
    /\ phase = "ready"
    /\ ncalls < MaxCalls
    /\ LET r == update_data(Start(self), nlevels)
       IN  /\ self' = r.s
           /\ call' = Called("update_data", "None", KwNlevels(nlevels), <<>>, "", r)
    /\ ncalls' = ncalls + 1
    /\ UNCHANGED <<phase, before, io, cb>>

UpdateQuantiles ==
    /\ phase = "ready"
    /\ ncalls < MaxCalls
    /\ LET r == update_quantiles(Start(self))
       IN  /\ self' = r.s
           /\ call' = Called("update_quantiles", "None", NoKw, <<>>, "", r)
    /\ ncalls' = ncalls + 1
    /\ UNCHANGED <<phase, before, io, cb>>

SetTestingParams ==
    /\ phase = "ready"
    /\ ncalls < MaxCalls
    /\ LET r == set_testing_params(Start(self))
       IN  /\ self' = r.s
           /\ call' = Called("set_testing_params", "None", NoKw, <<>>, "", r)
    /\ ncalls' = ncalls + 1
    /\ UNCHANGED <<phase, before, io, cb>>

Next ==
    \/ \E D \in DependsOnSpecs, fit_on \in FitOnValues, stop_data \in BOOLEAN :
          Construct(D, fit_on, stop_data)
    \/ \E c \in FitCalls : SetFitparams(c[1], c[2])
    \/ \E kw \in BasinKwargs : SetBasinparams(kw)
    \/ \E D \in DependsOnSpecs : SetConditions(D)
    \/ \E appendstr \in {"", "x"} : GenerateModelId(appendstr)
    \/ \E nlevels \in NlevelsValues : UpdateData(nlevels)
    \/ UpdateQuantiles
    \/ SetTestingParams

Spec == Init /\ [][Next]_vars

(***************************************************************************)
(* Tracked runs: the same object, with the attributes before each call     *)
(* kept, data that may hold no stop-signal delay, factor levels containing *)
(* '_', and the first set_fitparams call (CORE.py:71) given overrides      *)
(***************************************************************************)

\* the specifications of the tracked runs
TrackedSpecs == {FlatSpec, CondSpec, GrpSpec, ListSpec, MixedSpec, SiteArmSpec}

\* the numbers of delay columns of the stop-signal table
DelayCounts == {0, NSsd}

\* __init__ up to line 69 of __prepare_fit__: the conditions are set and the
\* observed data built, fitparams does not exist yet
build(e, D, fit_on, stop_data, quantiles) ==
    LET e1 == [e EXCEPT !.s.fit_on = fit_on,
                        !.s.quantiles = quantiles,
                        !.s.stop_data = stop_data,
                        !.s.idx = SubjectIds,
                        !.s.nidx = Len(SubjectIds),
                        !.s.inits = "None"]
    IN  make_dataframes(
           generate_model_id(format_pcmap(default_inits(set_conditions(e1, D))), ""))

\* __prepare_fit__, lines 71-77, with the first set_fitparams call given
\* force and overrides
first_fit(e, force, kw) ==
    new_optimizer(set_basinparams(set_fitparams(e, force, kw), NoBasinKw))

\* the set_fitparams calls of the tracked runs
TrackedCalls ==
    {<<"None", KwDependsOn(D)>> : D \in TrackedSpecs}
    \cup {<<"None", KwIx(k)>> : k \in {0, 1}}
    \cup {<<"None", KwQuantiles(q)>> : q \in QuantileArrays}

\* the first set_fitparams calls tried
FirstCalls ==
    {<<"None", kw>> : kw \in {NoKw, KwIx(1), KwNlevels(5), KwFitOn("subjects"),
                               KwDependsOn(CondSpec)}}
    \cup {<<"None", KwNtrials(n)>> : n \in NtrialsValues}
    \cup {<<"None", KwQuantiles(q)>> : q \in QuantileArrays}

\* __init__ on data with stop-signal trials and ndelays delay columns
ConstructStop(D, fit_on, ndelays) ==
    /\ phase = "new"
    /\ LET r == init(Start([self EXCEPT !.ndelays = ndelays]), D, fit_on, TRUE,
                     DefaultQuantiles)
       IN  /\ phase' = IF Ok(r) THEN "ready" ELSE "failed"
           /\ self' = r.s
           /\ call' = Called("__init__", "None", NoKw, D, fit_on, r)
    /\ before' = self
    /\ UNCHANGED <<ncalls, io, cb>>

Build(D, fit_on) ==
    /\ phase = "new"
    /\ LET r == build(Start(self), D, fit_on, FALSE, DefaultQuantiles)
       IN  /\ phase' = IF Ok(r) THEN "built" ELSE "failed"
           /\ self' = r.s
           /\ call' = Called("build", "None", NoKw, D, fit_on, r)
    /\ before' = self
    /\ UNCHANGED <<ncalls, io, cb>>

FirstSetFitparams(force, kw) ==
    /\ phase = "built"
    /\ LET r == first_fit(Start(self), force, kw)
       IN  /\ phase' = IF Ok(r) THEN "ready" ELSE "failed"
           /\ self' = r.s
           /\ call' = Called("first_set_fitparams", force, kw, <<>>, "", r)
    /\ before' = self
    /\ UNCHANGED <<ncalls, io, cb>>

TrackedSetFitparams(force, kw) ==
    /\ phase = "ready"
    /\ ncalls < MaxCalls
    /\ LET r == set_fitparams(Start(self), force, kw)
       IN  /\ self' = r.s
           /\ call' = Called("set_fitparams", force, kw, <<>>, "", r)
    /\ ncalls' = ncalls + 1
    /\ before' = self
    /\ UNCHANGED <<phase, io, cb>>

TrackedNext ==
    \/ \E D \in TrackedSpecs, fit_on \in FitOnValues, ndelays \in DelayCounts :
          ConstructStop(D, fit_on, ndelays)
    \/ \E D \in TrackedSpecs, fit_on \in FitOnValues : Build(D, fit_on)
    \/ \E c \in FirstCalls : FirstSetFitparams(c[1], c[2])
    \/ \E c \in TrackedCalls : TrackedSetFitparams(c[1], c[2])

TrackedSpec == Init /\ [][TrackedNext]_vars

(***************************************************************************)
(* Properties                                                              *)
(***************************************************************************)

\* the record handed to the Optimizer
fitparams == self.fitparams

\* the last public call was op and it returned (raised nothing)
Returned(op) == phase = "ready" /\ call.op = op /\ call.err = "none"

\* the last public call was set_fitparams(depends_on=D, ...)
DependsOnPassed == call.op = "set_fitparams" /\ "depends_on" \in call.kw.keys

\* the clmap and pcmap that the data gives for a specification D
ClmapFor(D) == [c \in Range(ConditionNames(D)) |-> Levels(c)]
PcmapFor(D) == PcmapOf(D, ClmapFor(D))

\* C1: after a completed set_fitparams(depends_on=D) the record is consistent
\* with D: its depends_on is D, its clmap and pcmap are the ones derived from D
\* (the pcmap being the model's current pcmap), and its model_id is the model's.
C1_RecordConsistentWithDependsOn ==
    (Returned("set_fitparams") /\ DependsOnPassed) =>
        LET D == call.kw.depends_on
        IN  /\ fitparams.depends_on = D
            /\ fitparams.clmap = ClmapFor(D)
            /\ fitparams.pcmap = PcmapFor(D)
            /\ fitparams.pcmap = self.pcmap
            /\ fitparams.model_id = self.model_id

\* C2: every set_fitparams(depends_on=D) call that changes depends_on and
\* returns has rebuilt the observed data (run __make_dataframes__) on the way,
\* whether the previous configuration was flat or conditional.
C2_DependsOnChangeRebuildsObserved ==
    [][(phase = "ready" /\ call'.op = "set_fitparams"
            /\ "depends_on" \in call'.kw.keys
            /\ call'.kw.depends_on # self.depends_on
            /\ call'.err = "none") =>
          call'.nmake >= 1]_vars

\* C3: when set_fitparams or set_conditions returns, y and wts have the same
\* length and are the flat vector (length ncols, current quantiles) if the
\* record's nlevels is 1, and otherwise the conditional vector of the current
\* depends_on, of length ncols * nlevels.  Stated for records whose nlevels is 1
\* or the condition set's nlevels, so that no nlevels keyword is involved.
C3_SelectedVectorsHaveCurrentShape ==
    ((Returned("set_fitparams") \/ Returned("set_conditions"))
        /\ fitparams.nlevels \in {1, self.nlevels}) =>
        /\ VecLen(fitparams.y) = VecLen(fitparams.wts)
        /\ fitparams.y.quantiles = self.quantiles
        /\ fitparams.nlevels = 1 =>
              /\ fitparams.y.of = "observed_flat"
              /\ VecLen(fitparams.y) = Ncols(self.quantiles)
        /\ fitparams.nlevels # 1 =>
              /\ fitparams.y.of = "observed"
              /\ fitparams.y.conds = self.conds
              /\ VecLen(fitparams.y) = Ncols(self.quantiles) * fitparams.nlevels

\* list[i] as Python reads it, for an index in range
At(list, i) == list[PyIndex(Len(list), i)]

\* the vectors update_data selects for a record with the given nlevels
SelectedFrom(nlevels) ==
    /\ nlevels > 1 =>
          /\ fitparams.y = At(self.observed, fitparams.ix)
          /\ fitparams.wts = At(self.cond_wts, fitparams.ix)
    /\ ~(nlevels > 1) =>
          /\ fitparams.y = At(self.observed_flat, fitparams.ix)
          /\ fitparams.wts = At(self.flat_wts, fitparams.ix)

\* C4 as stated: after every set_fitparams call that returns, y and wts are the
\* ix'th conditional vectors if the record's nlevels > 1 and the ix'th flat ones
\* otherwise, and idx is str(idx[ix]) if the record's fit_on is 'subjects' and
\* 'avg' if it is 'average'.
C4_DerivedFieldsFollowRecord ==
    Returned("set_fitparams") =>
        /\ SelectedFrom(fitparams.nlevels)
        /\ fitparams.fit_on = "subjects" =>
              fitparams.idx = StrOfInt(At(self.idx, fitparams.ix))
        /\ fitparams.fit_on = "average" => fitparams.idx = "avg"

\* C4 as amended: the same, with idx following the model's fit_on (self.fit_on),
\* which set_fitparams(fit_on=...) does not change.
C4_DerivedFieldsFollowModelFitOn ==
    Returned("set_fitparams") =>
        /\ SelectedFrom(fitparams.nlevels)
        /\ self.fit_on = "subjects" =>
              fitparams.idx = StrOfInt(At(self.idx, fitparams.ix))
        /\ self.fit_on # "subjects" => fitparams.idx = "avg"

\* a conditional fit of the second subject has been selected
C4_Witness ==
    /\ Returned("set_fitparams")
    /\ self.fit_on = "subjects"
    /\ fitparams.nlevels > 1
    /\ fitparams.ix = 1
    /\ fitparams.y.of = "observed"
    /\ fitparams.idx = StrOfInt(SubjectIds[2])

\* the public operations that assign to fitparams or basinparams
MutatingOps ==
    {"set_fitparams", "set_basinparams", "set_conditions", "generate_model_id",
     "update_data", "update_quantiles", "set_testing_params"}

\* C5: a public operation that returns having changed fitparams or basinparams
\* has made an opt.update call that carried the record as it is on return.
C5_MutationsAreNotified ==
    [][(phase = "ready" /\ call'.op \in MutatingOps /\ call'.err = "none") =>
          /\ self'.fitparams # self.fitparams =>
                \E k \in DOMAIN call'.notes :
                    /\ call'.notes[k].arg = "fitparams"
                    /\ call'.notes[k].fitparams = self'.fitparams
          /\ self'.basinparams # self.basinparams =>
                \E k \in DOMAIN call'.notes :
                    /\ call'.notes[k].arg = "basinparams"
                    /\ call'.notes[k].basinparams = self'.basinparams]_vars

\* the condition state of the model
CondState(s) ==
    <<s.depends_on, s.conds, s.is_flat, s.clmap, s.nlevels, s.pcmap>>

\* C6: a set_fitparams or set_conditions call that fails leaves fitparams and
\* the condition state exactly as they were before the call.
C6_FailedSetterLeavesNoPartialState ==
    [][(phase = "ready" /\ call'.op \in {"set_fitparams", "set_conditions"}
            /\ call'.err # "none") =>
          /\ self'.fitparams = self.fitparams
          /\ CondState(self') = CondState(self)]_vars

\* C7: set_fitparams(ix=k) fails for every k outside 0..n-1, n the number of fit
\* units, negative k included.  (The formula asks only that the call raises; the
\* class raised is in call.err.)
C7_OutOfRangeIxFails ==
    (phase = "ready" /\ call.op = "set_fitparams" /\ "ix" \in call.kw.keys
        /\ call.kw.ix \notin 0..(NUnits(self.fit_on) - 1)) =>
        call.err # "none"

\* the specification a set_conditions call was entered with, if the last public
\* call entered one
EnteredSetConditions ==
    call.op \in {"__init__", "set_conditions"} \/ DependsOnPassed
EnteredWith == IF DependsOnPassed THEN call.kw.depends_on ELSE call.D

\* D names a factor, other than the sentinel 'flat', that is no column of the data
NamesUnknownFactor(D) ==
    \E i \in DOMAIN D : \E c \in Range(D[i].conds) : c # "flat" /\ c \notin DataColumns

DistinctCount(c) ==
    IF ColumnIsNumeric(c) THEN Cardinality(ColumnInts(c)) ELSE Cardinality(ColumnStrings(c))

\* the distinct factors a specification references
FactorsOf(D) == UNION {Range(D[i].conds) : i \in DOMAIN D}

RECURSIVE ProductOver(_)
ProductOver(F) ==
    IF F = {} THEN 1
    ELSE LET c == CHOOSE x \in F : TRUE IN DistinctCount(c) * ProductOver(F \ {c})

\* a set_conditions call has been entered and the public call returned
ConditionsSet == phase = "ready" /\ EnteredSetConditions /\ call.err = "none"

\* C9: after set_conditions(D), nlevels is the product over the distinct factors
\* of D of the number of distinct levels of the factor in the data, and
\* cond_matrix holds those counts, one per factor.
C9_NlevelsIsProductOfCardinalities ==
    ConditionsSet =>
        /\ self.depends_on = EnteredWith
        /\ Range(self.conds) = FactorsOf(EnteredWith)
        /\ self.nlevels = ProductOver(FactorsOf(EnteredWith))
        /\ Len(self.cond_matrix) = Cardinality(FactorsOf(EnteredWith))
        /\ \A i \in DOMAIN self.cond_matrix :
              self.cond_matrix[i] = DistinctCount(self.conds[i])

\* a two-factor specification has given six level combinations
C9_Witness ==
    /\ Returned("set_conditions")
    /\ call.D = ListSpec
    /\ self.nlevels = 6
    /\ self.cond_matrix = <<2, 3>>

\* number of level combinations of the factors fs[t+1..], with levels from clmap
RECURSIVE Stride(_, _, _)
Stride(fs, clmap, t) ==
    IF t >= Len(fs) THEN 1 ELSE Len(clmap[fs[t + 1]]) * Stride(fs, clmap, t + 1)

\* the level of factor fs[t] in the k'th combination, the last factor varying fastest
LevelIn(fs, clmap, k, t) ==
    clmap[fs[t]][(((k - 1) \div Stride(fs, clmap, t)) % Len(clmap[fs[t]])) + 1]

\* 'l1_l2...' of the k'th combination, from factor t on
RECURSIVE Tag(_, _, _, _)
Tag(fs, clmap, k, t) ==
    IF t = Len(fs) THEN LevelIn(fs, clmap, k, t)
    ELSE LevelIn(fs, clmap, k, t) \o "_" \o Tag(fs, clmap, k, t + 1)

\* C10: pcmap[p] is 'p_<level>' per level of clmap[f], in clmap order, when p
\* depends on one factor f, and 'p_<l1>_<l2>...' per element of the cross-product
\* of the listed factors' levels, factors in the order listed and the last one
\* varying fastest, when p depends on a list; {'v': 'cond'} with levels easy and
\* hard gives {'v': ['v_easy', 'v_hard']} and nlevels 2.
C10_PcmapNamesEveryLevel ==
    ConditionsSet =>
        /\ DOMAIN self.pcmap = {self.depends_on[i].p : i \in DOMAIN self.depends_on}
        /\ \A i \in DOMAIN self.depends_on :
              LET item  == self.depends_on[i]
                  names == self.pcmap[item.p]
                  fs    == item.conds
              IN  IF item.list
                  THEN /\ Len(names) = Stride(fs, self.clmap, 0)
                       /\ \A k \in DOMAIN names :
                             names[k] = item.p \o "_" \o Tag(fs, self.clmap, k, 1)
                  ELSE /\ Len(names) = Len(self.clmap[fs[1]])
                       /\ \A k \in DOMAIN names :
                             names[k] = item.p \o "_" \o self.clmap[fs[1]][k]
        /\ self.depends_on = CondSpec =>
              /\ self.pcmap = [p \in {"v"} |-> <<"v_easy", "v_hard">>]
              /\ self.nlevels = 2

\* a list-valued item has been expanded in the order its factors are listed
C10_Witness ==
    /\ Returned("set_fitparams")
    /\ DependsOnPassed
    /\ self.depends_on = ListSpec
    /\ self.pcmap["v"] = <<"v_a_easy", "v_a_hard", "v_b_easy", "v_b_hard",
                           "v_c_easy", "v_c_hard">>

\* C11: in every reachable configuration no pcmap[p] list holds the same name
\* twice: two distinct level combinations of the factors p depends on never
\* synthesize the same parameter name, whatever level values the data holds.
C11_PcmapNamesAreDistinct ==
    \A p \in DOMAIN self.pcmap :
        \A i, j \in DOMAIN self.pcmap[p] :
            i # j => self.pcmap[p][i] # self.pcmap[p][j]

\* the distinct values of a column, each coerced to str
ColumnAsStrings(c) ==
    IF ColumnIsNumeric(c) THEN {StrOfInt(n) : n \in ColumnInts(c)} ELSE ColumnStrings(c)

\* C12: for every factor c referenced by depends_on, clmap[c] lists the distinct
\* values of column c coerced to strings, each once, in ascending order as
\* strings; for numeric columns as for string columns.
C12_LevelsAscendingAsStrings ==
    ConditionsSet =>
        \A c \in DOMAIN self.clmap :
            /\ Range(self.clmap[c]) = ColumnAsStrings(c)
            /\ Len(self.clmap[c]) = Cardinality(ColumnAsStrings(c))
            /\ \A i, j \in DOMAIN self.clmap[c] :
                  i < j => StrLess(self.clmap[c][i], self.clmap[c][j])

\* every observed vector and weight vector of the model is built with quantiles q
AllBuiltWith(q) ==
    /\ \A u \in DOMAIN self.observed : self.observed[u].quantiles = q
    /\ \A u \in DOMAIN self.cond_wts : self.cond_wts[u].quantiles = q
    /\ \A u \in DOMAIN self.observed_flat : self.observed_flat[u].quantiles = q
    /\ \A u \in DOMAIN self.flat_wts : self.flat_wts[u].quantiles = q

\* the last public call was set_fitparams(quantiles=q, ...)
QuantilesPassed == call.op = "set_fitparams" /\ "quantiles" \in call.kw.keys

\* C13: when set_fitparams(quantiles=q) returns on an existing record, the
\* model's quantiles are q, the observed data and weights have been rebuilt
\* during the call and are all built with q, and y/wts are the rebuilt vectors
\* for fitparams['ix'], conditional if fitparams['nlevels'] > 1 and flat
\* otherwise.
C13_QuantilesRebuildThenReselect ==
    (Returned("set_fitparams") /\ QuantilesPassed) =>
        /\ self.quantiles = call.kw.quantiles
        /\ fitparams.quantiles = call.kw.quantiles
        /\ call.nmake >= 1
        /\ AllBuiltWith(call.kw.quantiles)
        /\ SelectedFrom(fitparams.nlevels)
        /\ fitparams.y.quantiles = call.kw.quantiles
        /\ fitparams.wts.quantiles = call.kw.quantiles

\* new quantiles have been set on a record that selects the conditional vectors
C13_Witness ==
    /\ Returned("set_fitparams")
    /\ QuantilesPassed
    /\ call.kw.quantiles # DefaultQuantiles
    /\ fitparams.nlevels > 1
    /\ fitparams.y.of = "observed"
    /\ fitparams.y.quantiles = call.kw.quantiles

\* C14: set_fitparams(force='cond', ...) returns with fitparams['nlevels'] equal
\* to the condition set's nlevels and set_fitparams(force='flat', ...) with
\* fitparams['nlevels'] == 1, whatever depends_on is and whatever depends_on or
\* nlevels override is passed in the same call; y/wts are then the ix'th
\* conditional vectors if that nlevels is > 1 and the ix'th flat ones otherwise.
C14_ForceDecidesNlevels ==
    /\ (Returned("set_fitparams") /\ call.force = "cond") =>
          /\ fitparams.nlevels = self.nlevels
          /\ SelectedFrom(self.nlevels)
    /\ (Returned("set_fitparams") /\ call.force = "flat") =>
          /\ fitparams.nlevels = 1
          /\ SelectedFrom(1)

\* force='flat' has overridden the nlevels of a depends_on passed with it
C14_Witness ==
    /\ Returned("set_fitparams")
    /\ call.force = "flat"
    /\ DependsOnPassed
    /\ self.nlevels > 1
    /\ fitparams.nlevels = 1
    /\ fitparams.y.of = "observed_flat"

\* the keys of fitparams other than y, wts, idx and ssd_info, and of basinparams
RecordKeys ==
    {"ix", "ntrials", "tol", "maxfev", "kind", "clmap", "pcmap", "depends_on",
     "quantiles", "fit_on", "model_id", "inits", "nlevels", "nidx"}
BasinKeys == {"ninits", "nsamples", "nsuccess", "tol", "progress"}

\* the keys a depends_on override derives
DerivedFrom(keys) ==
    IF "depends_on" \in keys THEN {"nlevels", "clmap", "pcmap", "model_id"} ELSE {}

\* a set_basinparams call that supplies nothing changes no key, and one that
\* supplies keys changes no other key
BasinFrame ==
    (phase = "ready" /\ call'.op = "set_basinparams" /\ call'.err = "none") =>
        \A k \in BasinKeys \ call'.kw.keys : self'.basinparams[k] = self.basinparams[k]

\* C15 as stated: on an existing record, a set_fitparams call (with any force)
\* leaves every key that is not supplied and not derived (y, wts, idx, ssd_info,
\* and with depends_on supplied nlevels, clmap, pcmap, model_id) at its value;
\* set_basinparams likewise leaves every basinparams key not supplied.
C15_UnsuppliedKeysKept ==
    [][/\ (phase = "ready" /\ call'.op = "set_fitparams" /\ call'.err = "none") =>
             \A k \in (RecordKeys \ call'.kw.keys) \ DerivedFrom(call'.kw.keys) :
                 self'.fitparams[k] = self.fitparams[k]
       /\ BasinFrame]_vars

\* C15 as amended: the same, with nlevels counted among the derived keys of a
\* call that passes force='cond' or force='flat'.
C15_UnsuppliedKeysKeptButForced ==
    [][/\ (phase = "ready" /\ call'.op = "set_fitparams" /\ call'.err = "none") =>
             \A k \in ((RecordKeys \ call'.kw.keys) \ DerivedFrom(call'.kw.keys))
                        \ (IF call'.force # "None" THEN {"nlevels"} ELSE {}) :
                 self'.fitparams[k] = self.fitparams[k]
       /\ BasinFrame]_vars

\* a record with overridden ntrials has gone through the full rebuild of
\* __prepare_fit__ and has kept the override
C15_Witness ==
    /\ Returned("set_fitparams")
    /\ DependsOnPassed
    /\ call.nmake >= 1
    /\ fitparams.ntrials \in NtrialsValues

\* __init__ has returned: as a whole, or with its first set_fitparams call
\* (CORE.py:71) made without force and overrides as the code makes it
Constructed ==
    /\ phase = "ready"
    /\ \/ call.op = "__init__"
       \/ call.op = "first_set_fitparams" /\ call.force = "None" /\ call.kw.keys = {}

\* the first set_fitparams call has returned, having been given overrides
FirstCallOverridden ==
    phase = "ready" /\ call.op = "first_set_fitparams" /\ call.kw.keys # {}

\* C16: after construction, for any depends_on, fitparams is the default record:
\* ix == 0, nlevels == 1, y == observed_flat[0], wts == flat_wts[0] and the
\* remaining keys at their builtin defaults (the model's own values for the
\* keys copied from the model); and overrides passed to the first set_fitparams
\* call are not merged: each supplied key holds the default record's value.
C16_DefaultRecordAfterConstruction ==
    /\ Constructed =>
          /\ fitparams.ix = 0
          /\ fitparams.nlevels = 1
          /\ fitparams.y = self.observed_flat[1]
          /\ fitparams.wts = self.flat_wts[1]
          /\ fitparams.ntrials = 20000
          /\ fitparams.tol = "1e-30"
          /\ fitparams.maxfev = 450
          /\ fitparams.kind = Kind
          /\ fitparams.depends_on = self.depends_on
          /\ fitparams.clmap = self.clmap
          /\ fitparams.pcmap = self.pcmap
          /\ fitparams.quantiles = DefaultQuantiles
          /\ fitparams.fit_on = self.fit_on
          /\ fitparams.model_id = self.model_id
          /\ fitparams.nidx = NSubj
    /\ FirstCallOverridden =>
          \A k \in call.kw.keys : fitparams[k] = DefaultFitparams(before)[k]

\* the first set_fitparams call was given ix=1 and the record holds ix == 0
C16_Witness ==
    /\ FirstCallOverridden
    /\ "ix" \in call.kw.keys
    /\ call.kw.ix = 1
    /\ fitparams.ix = 0
    /\ fitparams.y = self.observed_flat[1]

\* the observed data of the model
ObservedData(s) == <<s.observed, s.cond_wts, s.observed_flat, s.flat_wts>>

\* C17: on an existing record, a set_fitparams call that repeats the call just
\* made (same force, same overrides), both returning, leaves fitparams, the
\* condition state and the observed data as they were after the first call.
C17_RepeatedCallChangesNothing ==
    [][(phase = "ready" /\ call.op = "set_fitparams" /\ call.err = "none"
            /\ call'.op = "set_fitparams" /\ call'.err = "none"
            /\ call'.force = call.force /\ call'.kw = call.kw
            /\ ncalls' = ncalls + 1) =>
          /\ self'.fitparams = self.fitparams
          /\ CondState(self') = CondState(self)
          /\ ObservedData(self') = ObservedData(self)]_vars

\* the model was in the flat configuration {'all': 'flat'}
FlatConfiguration(s) ==
    /\ s.has_opt
    /\ s.depends_on = FlatSpec
    /\ s.is_flat
    /\ s.fitparams.nlevels = 1

ssd_info == fitparams.ssd_info

\* C19: after set_fitparams returns with stop-signal data present, ssd_info holds
\* nssd, the number of delay columns; nss == floor(ntrials / 2) for the record's
\* current ntrials; nss_per_ssd == floor(nss / nssd); and ssd_ix with one row per
\* row of ssd, each row 0..nssd-1.  Three delays with ntrials = 20000 give
\* nss = 10000, nssd = 3, nss_per_ssd = 3333.
C19_SsdInfoCounts ==
    (Returned("set_fitparams") /\ self.has_ssdDF) =>
        /\ ssd_info.present
        /\ ssd_info.nssd = self.ndelays
        /\ 2 * ssd_info.nss <= fitparams.ntrials
        /\ fitparams.ntrials < 2 * (ssd_info.nss + 1)
        /\ ssd_info.nssd * ssd_info.nss_per_ssd <= ssd_info.nss
        /\ ssd_info.nss < ssd_info.nssd * (ssd_info.nss_per_ssd + 1)
        /\ Len(ssd_info.ssd_ix) = ssd_info.rows
        /\ \A r \in DOMAIN ssd_info.ssd_ix :
              /\ Len(ssd_info.ssd_ix[r]) = ssd_info.nssd
              /\ \A k \in DOMAIN ssd_info.ssd_ix[r] : ssd_info.ssd_ix[r][k] = k - 1
        /\ (ssd_info.nssd = 3 /\ fitparams.ntrials = 20000) =>
              /\ ssd_info.nss = 10000
              /\ ssd_info.nss_per_ssd = 3333

\* ssd_info has been recomputed for an odd trial budget
C19_Witness ==
    /\ Returned("set_fitparams")
    /\ self.has_ssdDF
    /\ "ntrials" \in call.kw.keys
    /\ fitparams.ntrials = 1001
    /\ ssd_info.nss = 500

\* C20: computing ssd_info on stop-signal data that yields zero distinct delays
\* (nssd == 0) fails with DataError, and no ssd_info is stored.
C20_NoDelaysRaisesDataError ==
    (call.op = "__init__" /\ self.has_ssdDF /\ self.ndelays = 0) =>
        /\ call.err = "DataError"
        /\ ~ssd_info.present

(***************************************************************************)
(* tools.utils.params_io: a parameter dictionary written to '<iostr>.csv'  *)
(* by pandas.Series.to_csv and read back by pandas.read_csv                *)
(***************************************************************************)

\* parameter values: a float, kept in tenths, or an array of floats (the
\* values of a conditional parameter)
Num(t) == [kind |-> "float", v |-> <<t>>]
Arr(ts) == [kind |-> "array", v |-> ts]
Txt(s)  == [kind |-> "str", v |-> <<s>>]

ParamNames == {"a", "v"}
ParamValues == {Num(5), Num(12), Arr(<<5, 12>>)}

\* the dictionaries tried: every dictionary over at most the two names,
\* the empty one (the default p={}) included
ParamDicts == UNION {[K -> ParamValues] : K \in SUBSET ParamNames}

IoNames == {"popt", "fit"}

\* repr of a float given in tenths
FloatText(t) == StrOfInt(t \div 10) \o "." \o Digit(t % 10)

\* str of a numpy float array: the elements separated by blanks, in brackets
RECURSIVE ArrayBody(_)
ArrayBody(ts) ==
    IF Len(ts) = 0 THEN ""
    ELSE IF Len(ts) = 1 THEN FloatText(ts[1])
    ELSE FloatText(ts[1]) \o " " \o ArrayBody(Tail(ts))

\* the text to_csv writes for a value
ValueText(val) ==
    IF val.kind = "float" THEN FloatText(val.v[1])
    ELSE IF val.kind = "array" THEN "[" \o ArrayBody(val.v) \o "]"
    ELSE val.v[1]

\* pd.Series(p).to_csv(...): one line 'name,value' per entry, no header line
ToCsv(p) ==
    LET names == SortStrings(DOMAIN p)
    IN  [i \in 1..Len(names) |-> names[i] \o "," \o ValueText(p[names[i]])]

\* the cells of a line: the text before and after its first ','
CommaAt(line) ==
    CHOOSE i \in 1..Len(line) :
        CharAt(line, i) = "," /\ \A j \in 1..(i - 1) : CharAt(line, j) # ","
Cell0(line) == SubSeq(line, 1, CommaAt(line) - 1)
Cell1(line) == SubSeq(line, CommaAt(line) + 1, Len(line))

Digits == {"0", "1", "2", "3", "4", "5", "6", "7", "8", "9"}

DigitValue(c) == CHOOSE d \in 0..9 : Digit(d) = c

\* a cell read_csv parses as a float: digits, '.', digits
IsFloatText(s) ==
    /\ Len(s) > 0
    /\ \A i \in 1..Len(s) : CharAt(s, i) \in Digits \cup {"."}
    /\ Cardinality({i \in 1..Len(s) : CharAt(s, i) = "."}) <= 1
    /\ \E i \in 1..Len(s) : CharAt(s, i) \in Digits

RECURSIVE ParseDigits(_, _)
ParseDigits(s, acc) ==
    IF Len(s) = 0 THEN acc
    ELSE ParseDigits(SubSeq(s, 2, Len(s)), acc * 10 + DigitValue(CharAt(s, 1)))

\* float(s), in tenths
ParseFloat(s) ==
    LET dots == {i \in 1..Len(s) : CharAt(s, i) = "."}
        dot  == IF dots = {} THEN Len(s) + 1 ELSE CHOOSE i \in dots : TRUE
        frac == IF dot < Len(s) THEN DigitValue(CharAt(s, dot + 1)) ELSE 0
    IN  ParseDigits(SubSeq(s, 1, dot - 1), 0) * 10 + frac

\* pd.read_csv(..., header=None) and dict(zip(ps[0], ps[1])): column 1 is a
\* float column if every cell of it parses as a float, and a column of
\* strings otherwise
FromCsv(lines) ==
    LET numeric == \A i \in DOMAIN lines : IsFloatText(Cell1(lines[i]))
    IN  [name \in {Cell0(lines[i]) : i \in DOMAIN lines} |->
            LET cell == Cell1(lines[CHOOSE i \in DOMAIN lines : Cell0(lines[i]) = name])
            IN  IF numeric THEN Num(ParseFloat(cell)) ELSE Txt(cell)]

\* params_io(p, io='w', iostr)
params_io_w(s, p, iostr) ==
    [files   |-> [n \in DOMAIN s.files \cup {iostr} |->
                     IF n = iostr THEN ToCsv(p) ELSE s.files[n]],
     op |-> "w", iostr |-> iostr, p |-> p, err |-> "none", result |-> <<>>]

\* params_io(io='r', iostr): read_csv raises on a missing and on an empty file
params_io_r(s, iostr) ==
    LET done(err, result) ==
            [files |-> s.files, op |-> "r", iostr |-> iostr, p |-> <<>>,
             err |-> err, result |-> result]
    IN  IF iostr \notin DOMAIN s.files THEN done("IOError", <<>>)
        ELSE IF Len(s.files[iostr]) = 0 THEN done("EmptyDataError", <<>>)
        ELSE done("none", FromCsv(s.files[iostr]))

IoInit ==
    /\ phase = "new"
    /\ self = NewSelf
    /\ call = NoCall
    /\ ncalls = 0
    /\ before = NewSelf
    /\ io = NoIo
    /\ cb = NoCallback

WriteParams(p, iostr) ==
    /\ io' = params_io_w(io, p, iostr)
    /\ UNCHANGED <<phase, self, call, ncalls, before, cb>>

ReadParams(iostr) ==
    /\ io' = params_io_r(io, iostr)
    /\ UNCHANGED <<phase, self, call, ncalls, before, cb>>

IoNext ==
    \/ \E p \in ParamDicts, iostr \in IoNames : WriteParams(p, iostr)
    \/ \E iostr \in IoNames : ReadParams(iostr)

IoSpec == IoInit /\ [][IoNext]_vars

\* C21: params_io(p, io='w', iostr=s) followed by params_io(io='r', iostr=s)
\* returns a mapping with exactly the keys of p, each mapped to its original
\* value.
C21_ParamsRoundTrip ==
    [][(io.op = "w" /\ io'.op = "r" /\ io'.iostr = io.iostr) =>
          /\ io'.err = "none"
          /\ io'.result = io.p]_vars

\* C22: whenever depends_on references the literal factor 'flat' (is_flat is
\* true) the configuration has a single level: nlevels == 1, and the record's
\* nlevels after set_fitparams(depends_on=D) is 1, also when other parameters
\* of D depend on real factors.
C22_FlatMeansOneLevel ==
    (ConditionsSet /\ self.is_flat) =>
        /\ self.nlevels = 1
        /\ (DependsOnPassed /\ call.force = "None") => fitparams.nlevels = 1

\* a record whose y/wts were built for the grouping and level count that its
\* own depends_on and nlevels give
SelfConsistent(fp) ==
    /\ fp.nlevels > 1 =>
          /\ fp.y.of = "observed"
          /\ fp.wts.of = "cond_wts"
          /\ fp.y.conds = ConditionNames(fp.depends_on)
          /\ fp.y.nlevels = fp.nlevels
          /\ fp.wts.nlevels = fp.nlevels
    /\ fp.nlevels = 1 =>
          /\ fp.y.of = "observed_flat"
          /\ fp.wts.of = "flat_wts"

\* C23: every opt.update(fitparams=...) made during a set_fitparams(depends_on=D)
\* cascade, the intermediate ones included, hands the Optimizer a
\* self-consistent record: never the nlevels of the new specification together
\* with y/wts selected from observed data built for the old one.
C23_NotifiedRecordsAreConsistent ==
    (Returned("set_fitparams") /\ DependsOnPassed /\ call.force = "None") =>
        \A k \in DOMAIN call.notes :
            call.notes[k].arg = "fitparams" => SelfConsistent(call.notes[k].fitparams)

\* the number of times the last public call entered set_fitparams
Entries == call.nset

\* C24: the setter cascade terminates with a bounded number of entries into
\* set_fitparams, for every force and every override: no public call enters it
\* more than three times; __init__, set_conditions, set_testing_params and a
\* set_fitparams call without depends_on enter it exactly once; a
\* set_fitparams(depends_on=D) call enters it twice (itself and the call nested
\* in set_conditions), and a third time exactly when __prepare_fit__ rebuilds.
C24_CascadeIsBounded ==
    /\ Entries <= 3
    /\ call.nmake <= 1
    /\ (phase = "ready" /\ call.op = "__init__") => Entries = 1
    /\ Returned("set_conditions") => Entries = 1
    /\ Returned("set_testing_params") => Entries = 1
    /\ (Returned("set_fitparams") /\ ~DependsOnPassed) => Entries = 1
    /\ (Returned("set_fitparams") /\ DependsOnPassed) => Entries = 2 + call.nmake

\* a forced set_fitparams(depends_on=D) on a flat model has gone through
\* set_conditions and __prepare_fit__ and entered set_fitparams three times
C24_Witness ==
    /\ Returned("set_fitparams")
    /\ DependsOnPassed
    /\ call.force = "cond"
    /\ Entries = 3
    /\ call.nmake = 1

(***************************************************************************)
(* BasinCallback (tools/utils.py): the status callback of basinhopping     *)
(***************************************************************************)

\* reset, line 104: the default of its fmin argument
DefaultFmin == 1000

\* the fmin given to the constructor, the cost values and the parameter
\* vectors reported to callback
InitialCosts == {DefaultFmin, 5000}
CostValues == {500, 2000, 3000}
XValues == {"x1", "x2"}

\* number of callback calls made on one BasinCallback
MaxCallbacks == 3

\* np.min(self.history)
MinOf(S) == CHOOSE m \in S : \A v \in S : m <= v

\* PBinJ.update(value=v), lines 81-82: the value handed to the progress bar
bar_update(c, v) == [c EXCEPT !.bar = v + 1]

\* PBinJ.reset_bar, lines 68-69
reset_bar(c) == bar_update(c, 0)

\* reset(history, bar, gbasin, fmin); MyFloat(fmin) is a float of the same value
reset(c, history, bar, gbasin, fmin) ==
    LET c1 == IF history THEN [c EXCEPT !.history = <<fmin>>] ELSE c
        c2 == IF gbasin THEN [c1 EXCEPT !.gbasin = fmin] ELSE c1
    IN  IF bar THEN reset_bar(c2) ELSE c2

\* __init__(fmin=fmin); initial and passed keep the arguments the object was
\* given: the constructor's fmin and the fmin of every callback call
BasinCallback(fmin) ==
    [reset([built |-> TRUE, bar |-> 0, history |-> <<>>, gbasin |-> 0,
            xhistory |-> <<>>, initial |-> fmin, passed |-> <<>>],
           TRUE, FALSE, TRUE, fmin)
       EXCEPT !.xhistory = <<>>]

\* callback, lines 116-119: reset is called with its default fmin
new_basin(c, x, fmin) ==
    IF fmin <= MinOf(Range(c.history)) /\ fmin <= c.gbasin
    THEN reset([c EXCEPT !.gbasin = fmin, !.xhistory = Append(@, <<fmin, x>>)],
               TRUE, TRUE, FALSE, DefaultFmin)
    ELSE c

\* callback, lines 120-123
accepted(c, fmin, accept) ==
    IF accept
    THEN bar_update([c EXCEPT !.history = Append(@, fmin)], Len(c.history) + 1)
    ELSE c

\* callback(x, fmin, accept)
callback(c, x, fmin, accept) ==
    [accepted(new_basin(c, x, fmin), fmin, accept) EXCEPT !.passed = Append(@, fmin)]

BasinInit ==
    /\ phase = "new"
    /\ self = NewSelf
    /\ call = NoCall
    /\ ncalls = 0
    /\ before = NewSelf
    /\ io = NoIo
    /\ cb = NoCallback

NewBasinCallback(fmin) ==
    /\ ~cb.built
    /\ cb' = BasinCallback(fmin)
    /\ UNCHANGED <<phase, self, call, ncalls, before, io>>

Callback(x, fmin, accept) ==
    /\ cb.built
    /\ Len(cb.passed) < MaxCallbacks
    /\ cb' = callback(cb, x, fmin, accept)
    /\ UNCHANGED <<phase, self, call, ncalls, before, io>>

BasinNext ==
    \/ \E fmin \in InitialCosts : NewBasinCallback(fmin)
    \/ \E x \in XValues, fmin \in CostValues, accept \in BOOLEAN : Callback(x, fmin, accept)

BasinSpec == BasinInit /\ [][BasinNext]_vars

\* C25: after any sequence of callback(x, fmin, accept) calls gbasin is the
\* minimum of the constructor's fmin and every fmin passed so far, for cost
\* values above 1000 too; gbasin never increases; and each new best is
\* appended to xhistory.
C25_GbasinIsGlobalBest ==
    [][cb.built =>
          /\ cb'.gbasin = MinOf({cb'.initial} \cup Range(cb'.passed))
          /\ cb'.gbasin <= cb.gbasin
          /\ cb'.gbasin < cb.gbasin =>
                /\ Len(cb'.xhistory) = Len(cb.xhistory) + 1
                /\ cb'.xhistory[Len(cb'.xhistory)][1] = cb'.gbasin]_vars

====
